---- MODULE Spec2Model ----
(***************************************************************************)
(* Type resolution and mapping engine of the Dart template of              *)
(* postgres-meta: getRequiredTypes, sortTypesByDependency,                 *)
(* buildDartTypeFromPostgresType, buildDartTypeFromJsonschema,             *)
(* buildDartTypeFromPostgresColumn and the steps of apply.                 *)
(*                                                                         *)
(* The repository holds two revisions of the template:                     *)
(*   "part_000"  src/unnamed/part_000            (JSON-schema pass,        *)
(*               buildDartTypeFromPostgresColumn)                          *)
(*   "dart"      src/src/server/templates/dart.ts (forInsert rewrites the  *)
(*               registry entry in place)                                  *)
(* The variable template says which revision a behaviour runs.             *)
(*                                                                         *)
(* Strings are sequences of tokens: the token "_" is the underscore        *)
(* character and every other token is a run of alphanumeric characters, so *)
(* name.startsWith('_') is name[1] = "_" and name.slice(1) is Tail(name).  *)
(***************************************************************************)
EXTENDS Integers, Sequences, FiniteSets, TLC

VARIABLES
  template,        \* which revision of the template runs
  types,           \* GeneratorMetadata.types: the catalog
  columns,         \* GeneratorMetadata.columns
  views,           \* ids of the relations that are views (the others are tables)
  pc,              \* position inside apply
  requiredTypes,   \* apply: const requiredTypes
  thrown,          \* <<>> or <<message token, ...>>: the exception that left apply
  ptdMap,          \* apply: let ptdMap (key -> DartType)
  ptdKeys,         \* the string keys of ptdMap in insertion order
  idx,             \* loop index of the running for-loop / map
  declarableTypes, \* apply: let declarableTypes
  rendered,        \* what generateDeclaration has produced so far
  sortedCatalog,   \* result of sortTypesByDependency(types) called directly
  nullIn,          \* a TargetType handed to new NullDartType(...)
  nullOnce,        \* new NullDartType(nullIn)
  nullTwice        \* new NullDartType(new NullDartType(nullIn))

vars == <<template, types, columns, views, pc, requiredTypes, thrown, ptdMap, ptdKeys,
          idx, declarableTypes, rendered, sortedCatalog, nullIn, nullOnce, nullTwice>>

-----------------------------------------------------------------------------
(* Bounds of the model *)

MaxTypes == 3
MaxAttrs == 1
MaxUnderscores == 2
MaxTypeColumns == 2
MaxTables == 2
MaxColumns == 2
MaxWrapDepth == 2

-----------------------------------------------------------------------------
(* Generic helpers *)

SeqsUpTo(S, n) == UNION {[1..k -> S] : k \in 0..n}

Range(s) == {s[k] : k \in 1..Len(s)}

SetMax(S) == CHOOSE m \in S : \A n \in S : n <= m

RECURSIVE Dedupe(_)
\* insertion order of a JS Set built from a sequence
Dedupe(s) ==
  IF s = <<>> THEN <<>>
  ELSE LET front == Dedupe(SubSeq(s, 1, Len(s) - 1))
           last == s[Len(s)]
       IN IF last \in Range(front) THEN front ELSE Append(front, last)

IndexOf(s, x) == IF x \in Range(s) THEN CHOOSE k \in 1..Len(s) : s[k] = x /\ \A j \in 1..(k-1) : s[j] # x ELSE 0

-----------------------------------------------------------------------------
(* Names *)

startsWithUnderscore(name) == Len(name) > 0 /\ name[1] = "_"

slice1(name) == IF Len(name) = 0 THEN <<>> ELSE Tail(name)

RECURSIVE Underscores(_)
Underscores(n) == IF n = 0 THEN <<>> ELSE <<"_">> \o Underscores(n - 1)

-----------------------------------------------------------------------------
(* Catalog lookups: new Map(allTypes.map(type => [key, type])), last entry wins *)

typesById(allTypes, id) ==
  LET hits == {k \in 1..Len(allTypes) : allTypes[k].id = id}
  IN IF hits = {} THEN <<>> ELSE <<allTypes[SetMax(hits)]>>

typesByName(allTypes, name) ==
  LET hits == {k \in 1..Len(allTypes) : allTypes[k].name = name}
  IN IF hits = {} THEN <<>> ELSE <<allTypes[SetMax(hits)]>>

-----------------------------------------------------------------------------
(* sortTypesByDependency *)

\* dependencies that keep an attribute naming the type itself
dependenciesWithSelf(type) ==
  Dedupe([k \in 1..Len(type.attributes) |-> type.attributes[k].type_id])

\* TypeNode.dependencies: new Set(attributes.map(type_id).filter(id !== type.id))
dependencies(type) ==
  Dedupe(SelectSeq([k \in 1..Len(type.attributes) |-> type.attributes[k].type_id],
                   LAMBDA id : id # type.id))

RECURSIVE dfs(_, _, _)
RECURSIVE dfsEach(_, _, _)
\* a depth-first visit that takes a node on the stack for a finished one
dfsSkipsInStack(typeList, st, nodeId) ==
  LET node == typesById(typeList, nodeId)
  IN IF st.thrown # <<>> THEN st
     ELSE IF node = <<>> THEN st
     ELSE IF nodeId \in st.visited \/ nodeId \in st.inStack THEN st
     ELSE LET entered == [st EXCEPT !.inStack = @ \cup {nodeId}]
              after == dfsEach(typeList, entered, dependencies(node[1]))
          IN [after EXCEPT !.visited = @ \cup {nodeId},
                           !.inStack = @ \ {nodeId},
                           !.sorted = Append(@, node[1])]

\* st = [visited, inStack, sorted, thrown]; a thrown error unwinds every frame
dfs(typeList, st, nodeId) ==
  LET node == typesById(typeList, nodeId)
  IN IF st.thrown # <<>> THEN st
     ELSE IF node = <<>> THEN st
     ELSE IF nodeId \in st.inStack
       THEN [st EXCEPT !.thrown = <<"Circular dependency detected involving type">> \o node[1].name]
     ELSE IF nodeId \in st.visited THEN st
     ELSE LET entered == [st EXCEPT !.inStack = @ \cup {nodeId}]
              after == dfsEach(typeList, entered, dependencies(node[1]))
          IN IF after.thrown # <<>> THEN after
             ELSE [after EXCEPT !.visited = @ \cup {nodeId},
                                !.inStack = @ \ {nodeId},
                                !.sorted = Append(@, node[1])]

dfsEach(typeList, st, ids) ==
  IF ids = <<>> THEN st
  ELSE dfsEach(typeList, dfs(typeList, st, Head(ids)), Tail(ids))

RECURSIVE dfsUnvisited(_, _, _)
\* for (const nodeId of typeMap.keys()) if (!visited) dfs(nodeId)
dfsUnvisited(typeList, st, ids) ==
  IF ids = <<>> \/ st.thrown # <<>> THEN st
  ELSE dfsUnvisited(typeList,
                    IF Head(ids) \in st.visited THEN st ELSE dfs(typeList, st, Head(ids)),
                    Tail(ids))

\* the comparator with its two arguments exchanged
arraysLastSwapped(a, b) ==
  IF startsWithUnderscore(b.name) THEN 1
  ELSE IF startsWithUnderscore(a.name) THEN -1
  ELSE 0

\* the comparator handed to sorted.sort
arraysLast(a, b) ==
  IF startsWithUnderscore(a.name) THEN 1
  ELSE IF startsWithUnderscore(b.name) THEN -1
  ELSE 0

(* Array.prototype.sort as the engine runs it on fewer than 64 elements: the
   first run is counted (and reversed when strictly descending), the rest is
   inserted by binary search; the comparator is consulted exactly as here. *)
RECURSIVE ExtendRun(_, _, _)
ExtendRun(arr, descending, k) ==
  IF k > Len(arr) THEN k - 1
  ELSE LET order == arraysLast(arr[k], arr[k - 1])
       IN IF (descending /\ order >= 0) \/ (~descending /\ order < 0) THEN k - 1
          ELSE ExtendRun(arr, descending, k + 1)

Reverse(s) == [k \in 1..Len(s) |-> s[Len(s) + 1 - k]]

RECURSIVE BinarySearch(_, _, _, _)
\* left, right are 0-based and half open, as in the engine
BinarySearch(arr, pivot, left, right) ==
  IF left >= right THEN left
  ELSE LET mid == left + ((right - left) \div 2)
       IN IF arraysLast(pivot, arr[mid + 1]) < 0
          THEN BinarySearch(arr, pivot, left, mid)
          ELSE BinarySearch(arr, pivot, mid + 1, right)

RECURSIVE BinaryInsertionSort(_, _)
\* arr[1..start-1] is the sorted prefix; start is the next element to insert
BinaryInsertionSort(arr, start) ==
  IF start > Len(arr) THEN arr
  ELSE LET pivot == arr[start]
           pos == BinarySearch(arr, pivot, 0, start - 1)
           moved == SubSeq(arr, 1, pos) \o <<pivot>> \o SubSeq(arr, pos + 1, start - 1)
                    \o SubSeq(arr, start + 1, Len(arr))
       IN BinaryInsertionSort(moved, start + 1)

sortArraysLast(arr) ==
  IF Len(arr) < 2 THEN arr
  ELSE LET descending == arraysLast(arr[2], arr[1]) < 0
           runLength == ExtendRun(arr, descending, 3)
           run == IF descending
                  THEN Reverse(SubSeq(arr, 1, runLength)) \o SubSeq(arr, runLength + 1, Len(arr))
                  ELSE arr
       IN BinaryInsertionSort(run, runLength + 1)

\* [thrown |-> <<>>, value |-> the order]  or  [thrown |-> the error, value |-> <<>>]
sortTypesByDependency(typeList) ==
  LET start == [visited |-> {}, inStack |-> {}, sorted |-> <<>>, thrown |-> <<>>]
      keys == Dedupe([k \in 1..Len(typeList) |-> typeList[k].id])
      done == dfsUnvisited(typeList, start, keys)
  IN IF done.thrown # <<>> THEN [thrown |-> done.thrown, value |-> <<>>]
     ELSE [thrown |-> <<>>, value |-> sortArraysLast(done.sorted)]

-----------------------------------------------------------------------------
(* getRequiredTypes *)

RECURSIVE directTypeIdsOfAnyBase(_, _)
\* a loop that looks the format up without any of its leading underscores
directTypeIdsOfAnyBase(allTypes, cols) ==
  IF cols = <<>> THEN <<>>
  ELSE LET before == directTypeIdsOfAnyBase(allTypes, SubSeq(cols, 1, Len(cols) - 1))
           column == cols[Len(cols)]
           type == typesByName(allTypes, column.format)
           once == IF startsWithUnderscore(column.format) THEN slice1(column.format) ELSE <<>>
           bare == IF startsWithUnderscore(once) THEN slice1(once) ELSE once
           nonArrayType == typesByName(allTypes, bare)
       IN Dedupe(before
                 \o (IF type # <<>> THEN <<type[1].id>> ELSE <<>>)
                 \o (IF nonArrayType # <<>> THEN <<nonArrayType[1].id>> ELSE <<>>))

RECURSIVE directTypeIds(_, _)
\* the Set directTypeIds after the loop over columns, in insertion order
directTypeIds(allTypes, cols) ==
  IF cols = <<>> THEN <<>>
  ELSE LET before == directTypeIds(allTypes, SubSeq(cols, 1, Len(cols) - 1))
           column == cols[Len(cols)]
           type == typesByName(allTypes, column.format)
           nonArrayType == IF startsWithUnderscore(column.format)
                           THEN typesByName(allTypes, slice1(column.format))
                           ELSE <<>>
       IN Dedupe(before
                 \o (IF type # <<>> THEN <<type[1].id>> ELSE <<>>)
                 \o (IF nonArrayType # <<>> THEN <<nonArrayType[1].id>> ELSE <<>>))

RECURSIVE collectDependencies(_, _, _)
RECURSIVE collectEach(_, _, _)
\* a collector that follows attributes but not the base type of an array type
collectAttributesOnly(allTypes, acc, typeId) ==
  LET type == typesById(allTypes, typeId)
  IN IF typeId \in Range(acc) THEN acc
     ELSE IF type = <<>> THEN acc
     ELSE collectEach(allTypes, Append(acc, typeId),
            [k \in 1..Len(type[1].attributes) |-> type[1].attributes[k].type_id])

\* acc is the Set allRequiredTypeIds in insertion order
collectDependencies(allTypes, acc, typeId) ==
  LET type == typesById(allTypes, typeId)
  IN IF typeId \in Range(acc) THEN acc
     ELSE IF type = <<>> THEN acc
     ELSE LET added == Append(acc, typeId)
              attrs == collectEach(allTypes, added,
                         [k \in 1..Len(type[1].attributes) |-> type[1].attributes[k].type_id])
              nonArrayType == IF startsWithUnderscore(type[1].name)
                              THEN typesByName(allTypes, slice1(type[1].name))
                              ELSE <<>>
          IN IF nonArrayType # <<>>
             THEN collectDependencies(allTypes, attrs, nonArrayType[1].id)
             ELSE attrs

collectEach(allTypes, acc, ids) ==
  IF ids = <<>> THEN acc
  ELSE collectEach(allTypes, collectDependencies(allTypes, acc, Head(ids)), Tail(ids))

getRequiredTypes(allTypes, cols) ==
  LET allRequiredTypeIds == collectEach(allTypes, <<>>, directTypeIds(allTypes, cols))
      required == [k \in 1..Len(allRequiredTypeIds) |-> typesById(allTypes, allRequiredTypeIds[k])[1]]
  IN sortTypesByDependency(required)

-----------------------------------------------------------------------------
(* formatForDartClassName: split at every non-alphanumeric character, upper-case
   the first letter of each word, join.  word[0] of an empty word is undefined
   and undefined.toUpperCase() is a TypeError. *)

hasEmptyWord(name) ==
  \/ name = <<>>
  \/ name[1] = "_"
  \/ name[Len(name)] = "_"
  \/ \E k \in 1..(Len(name) - 1) : name[k] = "_" /\ name[k + 1] = "_"

capitalize(word) ==
  CASE word = "a" -> "A"
    [] word = "b" -> "B"
    [] word = "c" -> "C"
    [] word = "p" -> "P"
    [] word = "int4" -> "Int4"
    [] word = "jsonb" -> "Jsonb"
    [] word = "element" -> "Element"
    [] word = "required" -> "Required"
    [] OTHER -> word

formatForDartClassName(name) ==
  LET words == SelectSeq(name, LAMBDA w : w # "_")
  IN [k \in 1..Len(words) |-> capitalize(words[k])]

-----------------------------------------------------------------------------
(* The DartType classes.  kind is the class, of the contained types, name the
   constructor's string argument. *)

BuiltinDartType(keyword) == [kind |-> "Builtin", of |-> <<>>, name |-> <<keyword>>]

DatetimeDartType == [kind |-> "Datetime", of |-> <<>>, name |-> <<>>]

DurationDartType == [kind |-> "Duration", of |-> <<>>, name |-> <<>>]

ListDartType(containedType) == [kind |-> "List", of |-> <<containedType>>, name |-> <<>>]

\* a wrapper that keeps a nullable it is given as its contained type
NullDartTypeNested(containedType) == [kind |-> "Null", of |-> <<containedType>>, name |-> <<>>]

\* a nullable of a nullable keeps one wrapper only
NullDartType(containedType) ==
  [kind |-> "Null",
   of |-> IF containedType.kind = "Null" THEN containedType.of ELSE <<containedType>>,
   name |-> <<>>]

MapDartType(keyType, valueType) == [kind |-> "Map", of |-> <<keyType, valueType>>, name |-> <<>>]

(* The comment of a type: <<>> is null, <<c>> a string.  c records what
   JSON.parse makes of the string: parses FALSE is a SyntaxError, isObject
   FALSE a value that is no object (a number, a string, null); an object has
   hasTranslation and, under that key, translation. *)
CommentText(parses, isObject, hasTranslation, translation) ==
  [parses |-> parses, isObject |-> isObject, hasTranslation |-> hasTranslation,
   translation |-> translation]

(* The value under 'translation': isObject FALSE is a value that is no object;
   locales are the keys present, tables[l] the value under locale l, with
   isObject FALSE for null and keys the own keys of an object. *)
TranslationValue(isObject, locales, tables) ==
  [isObject |-> isObject, locales |-> locales, tables |-> tables]

LocaleTable(isObject, keys) == [isObject |-> isObject, keys |-> keys]

SUPPORTED_LOCALES == <<"en", "it">>

\* v in translation && Object.keys(translation[v]).filter(...).length === 0
localeThrows(translation, enumValues, v) ==
  \/ ~translation.isObject
  \/ v \in translation.locales /\ ~translation.tables[v].isObject

localeAccepted(translation, enumValues, v) ==
  /\ v \in translation.locales
  /\ translation.tables[v].keys \subseteq Range(enumValues)

\* the .map visits every locale before .every looks at the results
isTranslationThrows(translation, enumValues) ==
  \E k \in 1..Len(SUPPORTED_LOCALES) : localeThrows(translation, enumValues, SUPPORTED_LOCALES[k])

isTranslation(translation, enumValues) ==
  \A k \in 1..Len(SUPPORTED_LOCALES) : localeAccepted(translation, enumValues, SUPPORTED_LOCALES[k])

\* 'translation' in comment is a TypeError when comment is no object
isEnumDartCommentThrows(comment, enumValues) ==
  \/ ~comment.isObject
  \/ comment.hasTranslation /\ isTranslationThrows(comment.translation, enumValues)

isEnumDartComment(comment, enumValues) ==
  comment.hasTranslation /\ isTranslation(comment.translation, enumValues)

\* <<>> or the exception the constructor ends in; part_000 never reads comment
EnumDartConstructThrows(tpl, values, comment) ==
  IF tpl = "part_000" \/ comment = <<>> THEN <<>>
  ELSE IF ~comment[1].parses THEN <<"SyntaxError">>
  ELSE IF isEnumDartCommentThrows(comment[1], values) THEN <<"TypeError">>
  ELSE <<>>

\* comment: <<>> (null) or the parsed comment that was accepted
EnumDartConstruct(tpl, name, values, comment) ==
  [kind |-> "Enum", of |-> <<>>, name |-> name, values |-> values,
   comment |-> IF tpl = "dart" /\ comment # <<>> /\ isEnumDartComment(comment[1], values)
               THEN comment
               ELSE <<>>]

\* the attributes are read through ptdMap when the declaration is generated
ClassDartConstructForCompositeType(postgresType) ==
  [kind |-> "Composite", of |-> <<>>, name |-> formatForDartClassName(postgresType.name),
   id |-> postgresType.id]

ClassDartConstructForJsonschema(name, props) ==
  [kind |-> "Jsonschema", of |-> <<>>, name |-> formatForDartClassName(name), props |-> props]

StringDynamicMap == MapDartType(BuiltinDartType("String"), BuiltinDartType("dynamic"))

\* <<>> when the name is no key of the table
PGTYPE_TO_DARTTYPE_MAP(tpl, name) ==
  IF Len(name) # 1 THEN <<>>
  ELSE LET n == name[1]
       IN IF n = "bool" THEN <<BuiltinDartType("bool")>>
          ELSE IF n \in {"int2", "int4", "int8"} THEN <<BuiltinDartType("int")>>
          ELSE IF n \in {"float4", "float8", "numeric"} THEN <<BuiltinDartType("double")>>
          ELSE IF n \in {"time", "timetz", "timestamp", "timestamptz", "date"} THEN <<DatetimeDartType>>
          ELSE IF n = "interval" THEN <<DurationDartType>>
          ELSE IF n \in {"uuid", "text", "varchar", "regclass"} THEN <<BuiltinDartType("String")>>
          ELSE IF n = "jsonb" THEN <<StringDynamicMap>>
          ELSE IF n = "json" /\ tpl = "part_000" THEN <<StringDynamicMap>>
          ELSE <<>>

-----------------------------------------------------------------------------
(* buildDartTypeFromPostgresType: [thrown, value] *)

Returned(value) == [thrown |-> <<>>, value |-> <<value>>]

Threw(message) == [thrown |-> message, value |-> <<>>]

\* the rules in another order: an enum before the table of builtin types
buildEnumBeforeBuiltin(tpl, postgresType, map) ==
  LET isArray == startsWithUnderscore(postgresType.name)
      sanitizedTypeName == IF isArray THEN slice1(postgresType.name) ELSE postgresType.name
      dartTypeFromStaticMap == PGTYPE_TO_DARTTYPE_MAP(tpl, sanitizedTypeName)
      wrap(t) == IF isArray THEN ListDartType(t) ELSE t
  IN IF isArray /\ sanitizedTypeName \in DOMAIN map
       THEN Returned(ListDartType(map[sanitizedTypeName]))
     ELSE IF Len(postgresType.enums) > 0
       THEN Returned(wrap(EnumDartConstruct("part_000", postgresType.name, postgresType.enums,
                                            postgresType.comment)))
     ELSE IF dartTypeFromStaticMap # <<>>
       THEN Returned(wrap(dartTypeFromStaticMap[1]))
     ELSE Returned(BuiltinDartType("dynamic"))

buildDartTypeFromPostgresType(tpl, postgresType, map) ==
  LET isArray == startsWithUnderscore(postgresType.name)
      sanitizedTypeName == IF isArray THEN slice1(postgresType.name) ELSE postgresType.name
      dartTypeFromStaticMap == PGTYPE_TO_DARTTYPE_MAP(tpl, sanitizedTypeName)
      wrap(t) == IF isArray THEN ListDartType(t) ELSE t
  IN IF isArray /\ sanitizedTypeName \in DOMAIN map
       THEN Returned(ListDartType(map[sanitizedTypeName]))
     ELSE IF dartTypeFromStaticMap # <<>>
       THEN Returned(wrap(dartTypeFromStaticMap[1]))
     ELSE IF Len(postgresType.enums) > 0
       THEN IF EnumDartConstructThrows(tpl, postgresType.enums, postgresType.comment) # <<>>
            THEN Threw(EnumDartConstructThrows(tpl, postgresType.enums, postgresType.comment))
            ELSE Returned(wrap(EnumDartConstruct(tpl, postgresType.name, postgresType.enums,
                                                 postgresType.comment)))
     ELSE IF Len(postgresType.attributes) > 0
       THEN IF hasEmptyWord(postgresType.name)
            THEN Threw(<<"TypeError">>)
            ELSE Returned(wrap(ClassDartConstructForCompositeType(postgresType)))
     ELSE Returned(BuiltinDartType("dynamic"))

\* the key a number becomes when it indexes ptdMap
IdKey(id) == <<ToString(id)>>

isDeclarableCatalogType(t) == t.kind \in {"Enum", "Composite"}

-----------------------------------------------------------------------------
(* ptdMap: a JS object used as a dictionary *)

EmptyMap == [k \in {} |-> BuiltinDartType("dynamic")]

Put(map, key, value) == [k \in DOMAIN map \cup {key} |-> IF k = key THEN value ELSE map[k]]

PutKey(keys, key) == IF key \in Range(keys) THEN keys ELSE Append(keys, key)

-----------------------------------------------------------------------------
(* apply, lines up to the end of the resolution loop *)

\* rank of a token under localeCompare: punctuation, then digits, then letters
tokenRank(tok) ==
  CASE tok = "_" -> 0
    [] tok = "1" -> 1
    [] tok = "a" -> 2
    [] tok = "b" -> 3
    [] tok = "c" -> 4
    [] tok = "int4" -> 5
    [] tok = "jsonb" -> 6
    [] tok = "p" -> 7
    [] tok = "required" -> 8
    [] OTHER -> 9

RECURSIVE localeCompare(_, _)
localeCompare(a, b) ==
  IF a = <<>> /\ b = <<>> THEN 0
  ELSE IF a = <<>> THEN -1
  ELSE IF b = <<>> THEN 1
  ELSE IF tokenRank(Head(a)) < tokenRank(Head(b)) THEN -1
  ELSE IF tokenRank(Head(a)) > tokenRank(Head(b)) THEN 1
  ELSE localeCompare(Tail(a), Tail(b))

RECURSIVE sortColumnsByName(_)
\* columns.sort(({name: a}, {name: b}) => a.localeCompare(b)): a stable sort
sortColumnsByName(cols) ==
  IF cols = <<>> THEN <<>>
  ELSE LET front == sortColumnsByName(SubSeq(cols, 1, Len(cols) - 1))
           last == cols[Len(cols)]
           keep == {k \in 1..Len(front) : localeCompare(front[k].name, last.name) <= 0}
           pos == IF keep = {} THEN 0 ELSE SetMax(keep)
       IN SubSeq(front, 1, pos) \o <<last>> \o SubSeq(front, pos + 1, Len(front))

\* sortTypesByDependency(types) called on the whole catalog, outside apply
SortCatalog ==
  /\ pc = "direct"
  /\ sortedCatalog' = sortTypesByDependency(types)
  /\ pc' = "start"
  /\ UNCHANGED <<template, types, columns, views, requiredTypes, thrown, ptdMap, ptdKeys,
                 idx, declarableTypes, rendered, nullIn, nullOnce, nullTwice>>

\* apply: columns.sort(...), then const requiredTypes = getRequiredTypes(types, columns)
CallGetRequiredTypes ==
  /\ pc = "start"
  /\ columns' = sortColumnsByName(columns)
  /\ LET r == getRequiredTypes(types, columns')
     IN IF r.thrown # <<>>
        THEN /\ thrown' = r.thrown
             /\ pc' = "threw"
             /\ UNCHANGED <<requiredTypes, idx>>
        ELSE /\ requiredTypes' = r.value
             /\ pc' = "resolve"
             /\ idx' = 1
             /\ UNCHANGED thrown
  /\ UNCHANGED <<template, types, views, ptdMap, ptdKeys, declarableTypes, rendered,
                 sortedCatalog, nullIn, nullOnce, nullTwice>>

\* one iteration of: for (const t of requiredTypes)
ResolveNext ==
  /\ pc = "resolve"
  /\ idx <= Len(requiredTypes)
  /\ LET t == requiredTypes[idx]
         r == buildDartTypeFromPostgresType(template, t, ptdMap)
     IN IF r.thrown # <<>>
        THEN /\ thrown' = r.thrown
             /\ pc' = "threw"
             /\ UNCHANGED <<ptdMap, ptdKeys, declarableTypes, idx>>
        ELSE /\ ptdMap' = Put(Put(ptdMap, IdKey(t.id), r.value[1]), t.name, r.value[1])
             /\ ptdKeys' = PutKey(PutKey(ptdKeys, IdKey(t.id)), t.name)
             /\ declarableTypes' = IF isDeclarableCatalogType(r.value[1])
                                   THEN Append(declarableTypes, r.value[1])
                                   ELSE declarableTypes
             /\ idx' = idx + 1
             /\ UNCHANGED <<pc, thrown>>
  /\ UNCHANGED <<template, types, columns, views, requiredTypes, rendered,
                 sortedCatalog, nullIn, nullOnce, nullTwice>>

\* the resolution loop has run through requiredTypes
ResolveDone ==
  /\ pc = "resolve"
  /\ idx > Len(requiredTypes)
  /\ pc' = IF template = "part_000" THEN "jsonschema" ELSE "declare"
  /\ idx' = 1
  /\ UNCHANGED <<template, types, columns, views, requiredTypes, thrown, ptdMap, ptdKeys,
                 declarableTypes, rendered, sortedCatalog, nullIn, nullOnce, nullTwice>>

-----------------------------------------------------------------------------
(* JSON schemas: the value JSON.parse returns.  keys are the object's own keys;
   a value that is no object (a string, a number, true) has isObject FALSE. *)

PrimitiveSchema(type) ==
  [isObject |-> TRUE, type |-> type, keys |-> {<<"type">>}, properties |-> <<>>, items |-> <<>>,
   required |-> {}]

ArraySchema(item) ==
  [isObject |-> TRUE, type |-> "array", keys |-> {<<"type">>, <<"items">>},
   properties |-> <<>>, items |-> <<item>>, required |-> {}]

\* props: the properties in the order of the document, [name, schema] each
ObjectSchema(props) ==
  [isObject |-> TRUE, type |-> "object", keys |-> {<<"type">>, <<"properties">>},
   properties |-> props, items |-> <<>>, required |-> {}]

\* an object schema with the list "required": the names of its required properties
ObjectSchemaRequiring(props, required) ==
  [isObject |-> TRUE, type |-> "object", keys |-> {<<"type">>, <<"properties">>, <<"required">>},
   properties |-> props, items |-> <<>>, required |-> required]

Property(name, schema) == [name |-> name, schema |-> schema]

hasItems(schema) == <<"items">> \in schema.keys /\ schema.items # <<>>

hasProperties(schema) == <<"properties">> \in schema.keys

\* schema.properties[name], <<>> when absent
propertyNamed(schema, name) ==
  LET hits == {k \in 1..Len(schema.properties) : schema.properties[k].name = name}
  IN IF hits = {} THEN <<>> ELSE <<schema.properties[SetMax(hits)].schema>>

(* buildDartTypeFromJsonschema(schema, name, ptdMap): the registry is written
   while the type is built, so the result carries it:
   [thrown, value, map, keys]. *)
RECURSIVE buildDartTypeFromJsonschema(_, _, _, _)
RECURSIVE buildProperties(_, _, _, _, _)

buildDartTypeFromJsonschema(schema, name, map, keys) ==
  IF ~schema.isObject
    THEN [thrown |-> <<>>, value |-> <<StringDynamicMap>>, map |-> map, keys |-> keys]
  ELSE IF schema.type = "array" /\ hasItems(schema)
    THEN LET newTypeName == name \o <<"_", "element">>
             inner == buildDartTypeFromJsonschema(schema.items[1], newTypeName, map, keys)
         IN IF inner.thrown # <<>> THEN inner
            ELSE [thrown |-> <<>>,
                  value |-> <<ListDartType(inner.value[1])>>,
                  map |-> Put(inner.map, newTypeName, inner.value[1]),
                  keys |-> PutKey(inner.keys, newTypeName)]
  ELSE IF schema.type = "object" /\ hasProperties(schema)
    THEN LET built == buildProperties(schema, 1, <<>>, map, keys)
         IN IF built.thrown # <<>> THEN built
            ELSE [thrown |-> <<>>,
                  value |-> <<ClassDartConstructForJsonschema(name, built.value)>>,
                  map |-> built.map, keys |-> built.keys]
  ELSE [thrown |-> <<>>,
        value |-> <<CASE schema.type = "string" -> BuiltinDartType("String")
                      [] schema.type = "integer" -> BuiltinDartType("int")
                      [] schema.type = "number" -> BuiltinDartType("double")
                      [] schema.type = "boolean" -> BuiltinDartType("bool")
                      [] schema.type = "null" -> NullDartType(BuiltinDartType("dynamic"))
                      [] OTHER -> BuiltinDartType("dynamic")>>,
        map |-> map, keys |-> keys]

\* the loop for (var p in schema.properties), from property k on; value is classProps
buildProperties(schema, k, classProps, map, keys) ==
  IF k > Len(schema.properties)
    THEN [thrown |-> <<>>, value |-> classProps, map |-> map, keys |-> keys]
  ELSE LET p == schema.properties[k].name
           inner == buildDartTypeFromJsonschema(schema.properties[k].schema, p, map, keys)
           requiredProperty == propertyNamed(schema, <<"required">>)
       IN IF inner.thrown # <<>> THEN inner
          \* 'required' in schema.properties && !(p in schema.properties.required)
          ELSE IF requiredProperty # <<>> /\ ~requiredProperty[1].isObject
            THEN [thrown |-> <<"TypeError">>, value |-> <<>>, map |-> inner.map, keys |-> inner.keys]
          ELSE LET newType == IF requiredProperty # <<>> /\ p \notin requiredProperty[1].keys
                              THEN NullDartType(inner.value[1])
                              ELSE inner.value[1]
               IN buildProperties(schema, k + 1,
                                  Append(SelectSeq(classProps, LAMBDA e : e.name # p),
                                         [name |-> p, type |-> newType]),
                                  Put(inner.map, p, newType), PutKey(inner.keys, p))

-----------------------------------------------------------------------------
(* apply, the JSON-schema pass (part_000 only) *)

isSchemaChecked(c) ==
  c.format = <<"jsonb">> /\ c.check # <<>> /\ c.check[1].startsWithMatches

\* one iteration of: for (const c of columns)
JsonschemaNext ==
  /\ pc = "jsonschema"
  /\ idx <= Len(columns)
  /\ LET c == columns[idx]
         r == buildDartTypeFromJsonschema(c.check[1].schema, c.name, ptdMap, ptdKeys)
     IN IF ~isSchemaChecked(c)
        THEN /\ idx' = idx + 1
             /\ UNCHANGED <<pc, thrown, ptdMap, ptdKeys>>
        ELSE IF r.thrown # <<>>
        THEN /\ thrown' = r.thrown
             /\ pc' = "threw"
             /\ ptdMap' = r.map
             /\ ptdKeys' = r.keys
             /\ UNCHANGED idx
        ELSE /\ ptdMap' = Put(r.map, c.name,
                              IF c.is_nullable THEN NullDartType(r.value[1]) ELSE r.value[1])
             /\ ptdKeys' = PutKey(r.keys, c.name)
             /\ idx' = idx + 1
             /\ UNCHANGED <<pc, thrown>>
  /\ UNCHANGED <<template, types, columns, views, requiredTypes, declarableTypes, rendered,
                 sortedCatalog, nullIn, nullOnce, nullTwice>>

\* the keys of a JS object as for-in walks them: integer keys ascending, then
\* the others in insertion order
isIntegerKey(key) == \E n \in 0..(MaxTypes + 1) : key = IdKey(n)

integerOfKey(key) == CHOOSE n \in 0..(MaxTypes + 1) : key = IdKey(n)

RECURSIVE ascendingKeys(_)
ascendingKeys(S) ==
  IF S = {} THEN <<>>
  ELSE LET least == CHOOSE k \in S : \A j \in S : integerOfKey(k) <= integerOfKey(j)
       IN <<least>> \o ascendingKeys(S \ {least})

forInKeys(keys) ==
  ascendingKeys({k \in Range(keys) : isIntegerKey(k)})
    \o SelectSeq(keys, LAMBDA k : ~isIntegerKey(k))

\* for (const k in ptdMap) if (t instanceof ClassDartConstructForJsonschema) push
CollectJsonschemaTypes ==
  /\ pc = "jsonschema"
  /\ idx > Len(columns)
  /\ LET order == forInKeys(ptdKeys)
         found == SelectSeq([k \in 1..Len(order) |-> ptdMap[order[k]]],
                            LAMBDA t : t.kind = "Jsonschema")
     IN declarableTypes' = declarableTypes \o found
  /\ pc' = "declare"
  /\ idx' = 1
  /\ UNCHANGED <<template, types, columns, views, requiredTypes, thrown, ptdMap, ptdKeys,
                 rendered, sortedCatalog, nullIn, nullOnce, nullTwice>>

-----------------------------------------------------------------------------
(* What the DartType classes generate.  A generated string is a sequence of
   tokens. *)

RECURSIVE generateTypeThrows(_)
\* generateType() of an enum calls formatForDartClassName(originalName)
generateTypeThrows(t) ==
  CASE t.kind = "Enum" -> hasEmptyWord(t.name)
    [] t.kind \in {"List", "Null"} -> generateTypeThrows(t.of[1])
    [] t.kind = "Map" -> generateTypeThrows(t.of[1]) \/ generateTypeThrows(t.of[2])
    [] OTHER -> FALSE

RECURSIVE generateType(_)
generateType(t) ==
  CASE t.kind = "Builtin" -> t.name
    [] t.kind = "Datetime" -> <<"DateTime">>
    [] t.kind = "Duration" -> <<"Duration">>
    [] t.kind = "List" -> <<"List<">> \o generateType(t.of[1]) \o <<">">>
    [] t.kind = "Null" -> generateType(t.of[1]) \o <<"?">>
    [] t.kind = "Map" -> <<"Map<">> \o generateType(t.of[1]) \o <<", ">>
                           \o generateType(t.of[2]) \o <<">">>
    [] t.kind = "Enum" -> formatForDartClassName(t.name)
    [] OTHER -> t.name

RECURSIVE generateJsonDecoding(_, _, _)
generateJsonDecoding(tpl, t, inputParameter) ==
  CASE t.kind = "Builtin" -> <<inputParameter, " as ">> \o t.name
    [] t.kind = "Datetime" -> <<"DateTime.parse(", inputParameter, ")">>
    [] t.kind = "Duration" -> <<"parsePostgresInterval(", inputParameter, ")">>
    [] t.kind = "List" ->
         <<"(", inputParameter, " as List<dynamic>).map((v) => ">>
           \o generateJsonDecoding(tpl, t.of[1], IF tpl = "part_000" THEN "v" ELSE inputParameter)
           \o <<").toList()">>
    [] t.kind = "Null" ->
         <<inputParameter, " == null ? null : ">> \o generateJsonDecoding(tpl, t.of[1], inputParameter)
    [] t.kind = "Map" ->
         IF tpl = "part_000" THEN <<inputParameter, " as Map<String, dynamic>">>
         ELSE <<inputParameter>>
    [] t.kind = "Enum" ->
         formatForDartClassName(t.name)
           \o (IF tpl = "part_000" THEN <<".fromJson(">> ELSE <<".values.byName(">>)
           \o <<inputParameter, ")">>
    [] OTHER -> t.name \o <<".fromJson(", inputParameter, ")">>

\* whether generateDeclaration() of a declarable type ends in a TypeError
declarationThrows(tpl, allTypes, t, map) ==
  CASE t.kind = "Enum" -> hasEmptyWord(t.name)
    [] t.kind = "Composite" ->
         LET attrs == typesById(allTypes, t.id)[1].attributes
         IN \E k \in 1..Len(attrs) :
               \/ IdKey(attrs[k].type_id) \notin DOMAIN map
               \/ generateTypeThrows(map[IdKey(attrs[k].type_id)])
    [] t.kind = "Jsonschema" ->
         \E k \in 1..Len(t.props) :
            hasEmptyWord(t.props[k].name) \/ generateTypeThrows(t.props[k].type)
    [] OTHER -> FALSE

-----------------------------------------------------------------------------
(* Column types *)

\* is_generated || is_identity || default_value !== null
mayBeOmitted(c) == c.is_generated \/ c.is_identity \/ c.default_value # <<>>

\* part_000; the caller has seen to it that ptdMap[format] exists
buildDartTypeFromPostgresColumn(postgresColumn, map, forInsert) ==
  LET dartType == IF postgresColumn.format = <<"jsonb">> /\ postgresColumn.name \in DOMAIN map
                  THEN map[postgresColumn.name]
                  ELSE map[postgresColumn.format]
  IN IF postgresColumn.is_nullable \/ (forInsert /\ mayBeOmitted(postgresColumn))
     THEN NullDartType(dartType)
     ELSE dartType

RECURSIVE forInsertRewrite(_, _)
\* dart.ts: the first .map of forInsert assigns ptdMap[column.format][1]
forInsertRewrite(map, cols) ==
  IF cols = <<>> THEN map
  ELSE LET column == Head(cols)
           entry == map[column.format]
       IN forInsertRewrite(
            IF entry.kind # "Null" /\ mayBeOmitted(column)
            THEN Put(map, column.format, NullDartType(entry))
            ELSE map,
            Tail(cols))

\* the type a column has before its table is rendered
baseType(tpl, c, map) ==
  IF tpl = "part_000" /\ c.format = <<"jsonb">> /\ c.name \in DOMAIN map
  THEN map[c.name]
  ELSE map[c.format]

selectType(tpl, c, map) ==
  IF tpl = "part_000" THEN buildDartTypeFromPostgresColumn(c, map, FALSE) ELSE map[c.format]

\* map is the registry the forInsert block reads: rewritten already in dart.ts
insertType(tpl, c, map) ==
  IF tpl = "part_000" THEN buildDartTypeFromPostgresColumn(c, map, TRUE) ELSE map[c.format]

-----------------------------------------------------------------------------
(* apply, the result template: declarations, then tables, then views *)


RECURSIVE ascending(_)
ascending(S) ==
  IF S = {} THEN <<>>
  ELSE LET least == CHOOSE k \in S : \A j \in S : k <= j
       IN <<least>> \o ascending(S \ {least})

\* tableClassConstructs, then viewClassConstructs
relationOrder == ascending((1..MaxTables) \ views) \o ascending(views)

\* columnsByTableId[id]; <<>> stands for undefined
columnsByTableId(id) == SelectSeq(columns, LAMBDA c : c.table_id = id)

\* declarableTypes.map((t) => t.generateDeclaration())
GenerateTypeDeclarations ==
  /\ pc = "declare"
  /\ IF \E k \in 1..Len(declarableTypes) :
          declarationThrows(template, types, declarableTypes[k], ptdMap)
     THEN /\ thrown' = <<"TypeError">>
          /\ pc' = "threw"
     ELSE /\ pc' = "render"
          /\ UNCHANGED thrown
  /\ idx' = 1
  /\ UNCHANGED <<template, types, columns, views, requiredTypes, ptdMap, ptdKeys,
                 declarableTypes, rendered, sortedCatalog, nullIn, nullOnce, nullTwice>>

\* generateDeclaration() of the next ClassDartConstruct
RenderNext ==
  /\ pc = "render"
  /\ idx <= Len(relationOrder)
  /\ LET relation == relationOrder[idx]
         withInsert == relation \notin views
         cols == columnsByTableId(relation)
         insertMap == IF template = "dart" /\ withInsert
                      THEN forInsertRewrite(ptdMap, cols)
                      ELSE ptdMap
         fields == [k \in 1..Len(cols) |->
                      [column |-> cols[k],
                       base |-> baseType(template, cols[k], ptdMap),
                       select |-> selectType(template, cols[k], ptdMap),
                       insert |-> IF withInsert
                                  THEN <<insertType(template, cols[k], insertMap)>>
                                  ELSE <<>>]]
     IN IF \/ cols = <<>>
           \/ \E k \in 1..Len(cols) :
                 \/ cols[k].format \notin DOMAIN ptdMap
                 \/ hasEmptyWord(cols[k].name)
                 \/ generateTypeThrows(baseType(template, cols[k], ptdMap))
        THEN /\ thrown' = <<"TypeError">>
             /\ pc' = "threw"
             /\ UNCHANGED <<ptdMap, rendered, idx>>
        ELSE /\ rendered' = Append(rendered, [relation |-> relation, fields |-> fields])
             /\ ptdMap' = insertMap
             /\ idx' = idx + 1
             /\ UNCHANGED <<pc, thrown>>
  /\ UNCHANGED <<template, types, columns, views, requiredTypes, ptdKeys, declarableTypes,
                 sortedCatalog, nullIn, nullOnce, nullTwice>>

\* apply returns the result
RenderDone ==
  /\ pc = "render"
  /\ idx > Len(relationOrder)
  /\ pc' = "done"
  /\ UNCHANGED <<template, types, columns, views, requiredTypes, thrown, ptdMap, ptdKeys,
                 idx, declarableTypes, rendered, sortedCatalog, nullIn, nullOnce, nullTwice>>

-----------------------------------------------------------------------------
(* new NullDartType(...) on its own *)

WrapOnce ==
  /\ pc = "wrap"
  /\ nullOnce = <<>>
  /\ nullOnce' = <<NullDartType(nullIn[1])>>
  /\ UNCHANGED <<template, types, columns, views, pc, requiredTypes, thrown, ptdMap, ptdKeys,
                 idx, declarableTypes, rendered, sortedCatalog, nullIn, nullTwice>>

WrapTwice ==
  /\ pc = "wrap"
  /\ nullOnce # <<>>
  /\ nullTwice = <<>>
  /\ nullTwice' = <<NullDartType(nullOnce[1])>>
  /\ UNCHANGED <<template, types, columns, views, pc, requiredTypes, thrown, ptdMap, ptdKeys,
                 idx, declarableTypes, rendered, sortedCatalog, nullIn, nullOnce>>

-----------------------------------------------------------------------------
(* Inputs of the type-graph specification *)

\* "a", its array type "_a", the array type of that, ..., and one more plain name
NamePool == {Underscores(d) \o <<"a">> : d \in 0..MaxUnderscores} \cup {<<"b">>}

\* type ids 1..MaxTypes are catalog types, MaxTypes + 1 is an id the catalog lacks
AttributeLists == SeqsUpTo({[type_id |-> id] : id \in 1..(MaxTypes + 1)}, MaxAttrs)

Injective(f) == \A j, k \in DOMAIN f : j # k => f[j] # f[k]

GraphCatalogs ==
  UNION {{[k \in 1..n |-> [id |-> k, name |-> names[k], attributes |-> attrs[k], enums |-> <<>>,
                              comment |-> <<>>]] :
            names \in {f \in [1..n -> NamePool] : Injective(f)},
            attrs \in [1..n -> AttributeLists]} : n \in 1..MaxTypes}

Column(tableId, name, format, nullable, generated, identity, default, check) ==
  [table_id |-> tableId, name |-> name, format |-> format, is_nullable |-> nullable,
   is_generated |-> generated, is_identity |-> identity, default_value |-> default,
   check |-> check]

\* columns that differ in their format only
GraphColumns ==
  SeqsUpTo({Column(1, <<"c">>, format, FALSE, FALSE, FALSE, <<>>, <<>>) : format \in NamePool},
           MaxTypeColumns)

NoResult == [thrown |-> <<>>, value |-> <<>>]

InitTypes ==
  /\ template = "part_000"
  /\ types \in GraphCatalogs
  /\ columns \in GraphColumns
  /\ views = {}
  /\ pc = "direct"
  /\ requiredTypes = <<>>
  /\ thrown = <<>>
  /\ ptdMap = EmptyMap
  /\ ptdKeys = <<>>
  /\ idx = 0
  /\ declarableTypes = <<>>
  /\ rendered = <<>>
  /\ sortedCatalog = NoResult
  /\ nullIn = <<>>
  /\ nullOnce = <<>>
  /\ nullTwice = <<>>

NextTypes == SortCatalog \/ CallGetRequiredTypes \/ ResolveNext \/ ResolveDone

SpecTypes == InitTypes /\ [][NextTypes]_vars

-----------------------------------------------------------------------------
(* Graph vocabulary of the properties *)

Ids(typeList) == {typeList[k].id : k \in 1..Len(typeList)}

PosOf(typeList, id) ==
  IF id \in Ids(typeList) THEN CHOOSE k \in 1..Len(typeList) : typeList[k].id = id ELSE 0

AttributeIds(type) == {type.attributes[k].type_id : k \in 1..Len(type.attributes)}

\* attribute references between two different types of the list
AttributeEdges(typeList) ==
  {e \in Ids(typeList) \X Ids(typeList) :
     e[1] # e[2] /\ e[2] \in AttributeIds(typesById(typeList, e[1])[1])}

Successors(E, S) == {e[2] : e \in {f \in E : f[1] \in S}}

RECURSIVE ReachSet(_, _)
ReachSet(E, S) ==
  LET next == S \cup Successors(E, S)
  IN IF next = S THEN S ELSE ReachSet(E, next)

OnCycle(E, id) == id \in ReachSet(E, Successors(E, {id}))

HasCycle(typeList) == \E id \in Ids(typeList) : OnCycle(AttributeEdges(typeList), id)

\* array type -> the catalog type named by its name without the leading '_'
BaseEdges(allTypes) ==
  {e \in Ids(allTypes) \X Ids(allTypes) :
     LET t == typesById(allTypes, e[1])[1]
     IN /\ startsWithUnderscore(t.name)
        /\ typesByName(allTypes, slice1(t.name)) # <<>>
        /\ typesByName(allTypes, slice1(t.name))[1].id = e[2]}

\* the catalog types the columns name: by format, and by format without '_'
SeedIds(allTypes, cols) ==
  {id \in Ids(allTypes) :
     \E k \in 1..Len(cols) :
        LET name == typesById(allTypes, id)[1].name
        IN \/ name = cols[k].format
           \/ startsWithUnderscore(cols[k].format) /\ name = slice1(cols[k].format)}

AllAttributeEdges(allTypes) ==
  {e \in Ids(allTypes) \X Ids(allTypes) : e[2] \in AttributeIds(typesById(allTypes, e[1])[1])}

LeastClosure(allTypes, cols) ==
  ReachSet(AllAttributeEdges(allTypes) \cup BaseEdges(allTypes), SeedIds(allTypes, cols))

\* the catalog types of the closure, in catalog order
ClosureTypes(allTypes, cols) ==
  SelectSeq(allTypes, LAMBDA t : t.id \in LeastClosure(allTypes, cols))

SortCalled == pc # "direct"

GetRequiredTypesCalled == pc \notin {"direct", "start"}

CircularMessage == <<"Circular dependency detected involving type">>

IsCircularError(err) == Len(err) > 1 /\ SubSeq(err, 1, 1) = CircularMessage

-----------------------------------------------------------------------------
(* C1: for an input list without a dependency cycle, every type referenced by
   an attribute of a type T of the list (and different from T) stands before T
   in the order sortTypesByDependency returns, array-marked or not. *)
C1_AttributeTypesFirst ==
  (SortCalled /\ ~HasCycle(types)) =>
     \A e \in AttributeEdges(types) :
        /\ PosOf(sortedCatalog.value, e[2]) > 0
        /\ PosOf(sortedCatalog.value, e[2]) < PosOf(sortedCatalog.value, e[1])

(* C2: in the list getRequiredTypes returns, the base type of every
   array-marked type stands before the array type when both are in the list,
   also when the base type is itself array-marked. *)
C2_BaseBeforeArray ==
  GetRequiredTypesCalled =>
     \A j, k \in 1..Len(requiredTypes) :
        (/\ startsWithUnderscore(requiredTypes[k].name)
         /\ requiredTypes[j].name = slice1(requiredTypes[k].name)) => j < k

(* C3: when the types handed to sortTypesByDependency hold a cycle of attribute
   references among two or more distinct types, the call throws the circular
   dependency error, the type the message names lies on such a cycle, no order
   is returned, and apply, which fails with it, registers no type. *)
C3_CycleIsFatal ==
  /\ (SortCalled /\ HasCycle(types)) =>
        /\ IsCircularError(sortedCatalog.thrown)
        /\ sortedCatalog.value = <<>>
        /\ \E k \in 1..Len(types) :
              /\ types[k].name = Tail(sortedCatalog.thrown)
              /\ OnCycle(AttributeEdges(types), types[k].id)
  /\ (GetRequiredTypesCalled /\ HasCycle(ClosureTypes(types, columns))) =>
        /\ pc = "threw"
        /\ IsCircularError(thrown)
        /\ \E k \in 1..Len(types) :
              /\ types[k].name = Tail(thrown)
              /\ OnCycle(AttributeEdges(ClosureTypes(types, columns)), types[k].id)
        /\ requiredTypes = <<>>
        /\ ptdMap = EmptyMap

C3_Witness ==
  /\ pc = "threw"
  /\ HasCycle(types)
  /\ HasCycle(ClosureTypes(types, columns))
  /\ IsCircularError(sortedCatalog.thrown)

(* C4: without a dependency cycle getRequiredTypes returns exactly the least
   set of catalog types that holds the type of every column format and the
   base type of every array format and is closed under attribute references
   and array base types, each type once. *)
C4_ExactClosure ==
  (GetRequiredTypesCalled /\ ~HasCycle(ClosureTypes(types, columns))) =>
     /\ Ids(requiredTypes) = LeastClosure(types, columns)
     /\ Len(requiredTypes) = Cardinality(LeastClosure(types, columns))
     /\ \A k \in 1..Len(requiredTypes) : requiredTypes[k] \in Range(types)

\* a closure with a type no column names, reached through an array base type
\* and an attribute, and a catalog type left out
C4_Witness ==
  /\ pc = "resolve"
  /\ Len(requiredTypes) = 2
  /\ Len(types) = 3
  /\ Cardinality(SeedIds(types, columns)) = 1
  /\ BaseEdges(types) # {}
  /\ \E e \in BaseEdges(types) : e[1] \in SeedIds(types, columns) /\ e[2] \in Ids(requiredTypes)

(* C6: when apply maps a type with attributes, every other type of the
   required set that one of its attributes references is already registered
   under its id. *)
C6_DependenciesRegisteredFirst ==
  (pc = "resolve" /\ idx <= Len(requiredTypes)) =>
     \A e \in AttributeEdges(requiredTypes) :
        e[1] = requiredTypes[idx].id => IdKey(e[2]) \in DOMAIN ptdMap

-----------------------------------------------------------------------------
(* Inputs of apply: one catalog, the columns drawn *)

ApplyCatalog ==
  << [id |-> 1, name |-> <<"int4">>, attributes |-> <<>>, enums |-> <<>>, comment |-> <<>>],
     [id |-> 2, name |-> <<"jsonb">>, attributes |-> <<>>, enums |-> <<>>, comment |-> <<>>],
     [id |-> 3, name |-> <<"a">>, attributes |-> <<>>, enums |-> <<"v">>, comment |-> <<>>] >>

\* jsonb_matches_schema('<schema>', <column>), or a check of another kind
MatchesSchema(schema) == <<[startsWithMatches |-> TRUE, schema |-> schema]>>

OtherCheck == <<[startsWithMatches |-> FALSE, schema |-> PrimitiveSchema("string")]>>

ObjectCheck ==
  MatchesSchema(ObjectSchema(<<Property(<<"p">>, PrimitiveSchema("string")),
                               Property(<<"a">>, PrimitiveSchema("integer"))>>))

ArrayCheck ==
  MatchesSchema(ArraySchema(ObjectSchema(<<Property(<<"p">>, PrimitiveSchema("boolean"))>>)))

\* {"type": "object", "properties": {"p": ..., "a": ...}, "required": ["p"]}
RequiredCheck ==
  MatchesSchema(ObjectSchemaRequiring(<<Property(<<"p">>, PrimitiveSchema("string")),
                                        Property(<<"a">>, PrimitiveSchema("integer"))>>,
                                      {<<"p">>}))

\* an object with the properties "required" and "type", and no list "required"
NamedRequiredCheck ==
  MatchesSchema(ObjectSchema(<<Property(<<"required">>, PrimitiveSchema("string")),
                               Property(<<"type">>, PrimitiveSchema("boolean"))>>))

ColumnNames == {<<"c">>, <<"a">>}

\* [is_generated, is_identity, default_value]
NoFlags == <<FALSE, FALSE, <<>>>>

FlagChoices == {NoFlags, <<TRUE, FALSE, <<>>>>, <<FALSE, TRUE, <<>>>>, <<FALSE, FALSE, <<"0">>>>}

ApplyColumnChoices ==
  {Column(t, n, <<"int4">>, nullable, f[1], f[2], f[3], <<>>) :
     t \in 1..MaxTables, n \in ColumnNames, nullable \in BOOLEAN, f \in FlagChoices}
  \cup
  {Column(t, n, <<"a">>, nullable, FALSE, FALSE, <<>>, <<>>) :
     t \in 1..MaxTables, n \in ColumnNames, nullable \in BOOLEAN}
  \cup
  {Column(t, n, <<"jsonb">>, nullable, FALSE, FALSE, d, check) :
     t \in 1..MaxTables, n \in ColumnNames, nullable \in BOOLEAN, d \in {<<>>, <<"0">>},
     check \in {<<>>, OtherCheck, ObjectCheck, ArrayCheck}}
  \cup
  {Column(t, n, <<"jsonb">>, nullable, FALSE, FALSE, <<>>, check) :
     t \in 1..MaxTables, n \in ColumnNames, nullable \in BOOLEAN,
     check \in {RequiredCheck, NamedRequiredCheck}}
  \cup
  {Column(t, n, <<"zz">>, FALSE, FALSE, FALSE, <<>>, <<>>) :
     t \in 1..MaxTables, n \in ColumnNames}

\* a relation has no two columns of one name
DistinctColumns(cols) ==
  \A i, j \in 1..Len(cols) :
     (cols[i].table_id = cols[j].table_id /\ cols[i].name = cols[j].name) => i = j

Init ==
  /\ template \in {"part_000", "dart"}
  /\ types = ApplyCatalog
  /\ columns \in {cols \in SeqsUpTo(ApplyColumnChoices, MaxColumns) : DistinctColumns(cols)}
  /\ views \in {{}, {MaxTables}}
  /\ pc = "start"
  /\ requiredTypes = <<>>
  /\ thrown = <<>>
  /\ ptdMap = EmptyMap
  /\ ptdKeys = <<>>
  /\ idx = 0
  /\ declarableTypes = <<>>
  /\ rendered = <<>>
  /\ sortedCatalog = NoResult
  /\ nullIn = <<>>
  /\ nullOnce = <<>>
  /\ nullTwice = <<>>

Next ==
  \/ CallGetRequiredTypes
  \/ ResolveNext
  \/ ResolveDone
  \/ JsonschemaNext
  \/ CollectJsonschemaTypes
  \/ GenerateTypeDeclarations
  \/ RenderNext
  \/ RenderDone

Spec == Init /\ [][Next]_vars

-----------------------------------------------------------------------------
(* Inputs of new NullDartType(...): the TargetTypes the constructors build *)

LeafTypes ==
  {BuiltinDartType(k) : k \in {"int", "double", "bool", "String", "dynamic"}}
  \cup {DatetimeDartType, DurationDartType, StringDynamicMap,
        EnumDartConstruct("dart", <<"a">>, <<"v">>, <<>>),
        ClassDartConstructForCompositeType(
          [id |-> 1, name |-> <<"b">>, attributes |-> <<[type_id |-> 2]>>, enums |-> <<>>,
           comment |-> <<>>]),
        ClassDartConstructForJsonschema(<<"c">>, <<>>)}

RECURSIVE TargetTypes(_)
TargetTypes(depth) ==
  IF depth = 0 THEN LeafTypes
  ELSE LET inner == TargetTypes(depth - 1)
       IN inner \cup {ListDartType(t) : t \in inner} \cup {NullDartType(t) : t \in inner}

InitNull ==
  /\ template \in {"part_000", "dart"}
  /\ types = <<>>
  /\ columns = <<>>
  /\ views = {}
  /\ pc = "wrap"
  /\ requiredTypes = <<>>
  /\ thrown = <<>>
  /\ ptdMap = EmptyMap
  /\ ptdKeys = <<>>
  /\ idx = 0
  /\ declarableTypes = <<>>
  /\ rendered = <<>>
  /\ sortedCatalog = NoResult
  /\ nullIn \in {<<t>> : t \in TargetTypes(MaxWrapDepth)}
  /\ nullOnce = <<>>
  /\ nullTwice = <<>>

NextNull == WrapOnce \/ WrapTwice

SpecNull == InitNull /\ [][NextNull]_vars

-----------------------------------------------------------------------------
(* Properties of apply *)

\* the resolution loop is over and no table or view has been rendered
ResolvedNotRendered == pc \in {"jsonschema", "declare"} \/ (pc = "render" /\ rendered = <<>>)

\* the keys the resolution loop writes
CatalogKeys == UNION {{IdKey(requiredTypes[k].id), requiredTypes[k].name} : k \in 1..Len(requiredTypes)}

(* C5: between the end of the resolution loop and the first rendered table or
   view, every required type (so every catalog type a column has as its
   format) is registered under its id and under its name, with one and the
   same TargetType. *)
C5_OneEntryUnderIdAndName ==
  ResolvedNotRendered =>
     \A k \in 1..Len(requiredTypes) :
        /\ IdKey(requiredTypes[k].id) \in DOMAIN ptdMap
        /\ requiredTypes[k].name \in DOMAIN ptdMap
        /\ ptdMap[IdKey(requiredTypes[k].id)] = ptdMap[requiredTypes[k].name]

(* C7: generating the declaration of a table or view leaves every registry
   entry as it was. *)
C7_RenderingKeepsRegistry == [][pc = "render" => ptdMap' = ptdMap]_vars

(* C8: once the resolution loop has registered a key, no later step of apply
   gives that key another TargetType. *)
C8_EntriesNeverReplaced ==
  [][(pc \in {"jsonschema", "declare", "render"}) =>
       (\A key \in CatalogKeys \cap DOMAIN ptdMap :
           key \in DOMAIN ptdMap' /\ ptdMap'[key] = ptdMap[key])]_vars

(* C10: a column that is not nullable and whose registered type is not
   Nullable has a non-nullable select type; its insert type is Nullable when
   the column is generated, an identity column or has a default, and
   non-nullable when it is none of these. *)
C10_InsertVariant ==
  \A r \in 1..Len(rendered) : \A k \in 1..Len(rendered[r].fields) :
     LET f == rendered[r].fields[k]
     IN (~f.column.is_nullable /\ f.base.kind # "Null") =>
           /\ f.select.kind # "Null"
           /\ f.insert # <<>> => (f.insert[1].kind = "Null" <=> mayBeOmitted(f.column))

-----------------------------------------------------------------------------
(* Properties of NullDartType *)

RECURSIVE NoNestedNull(_)
NoNestedNull(t) ==
  /\ t.kind = "Null" => t.of[1].kind # "Null"
  /\ \A k \in 1..Len(t.of) : NoNestedNull(t.of[k])

(* C9: new NullDartType(new NullDartType(X)) contains what new NullDartType(X)
   contains: X itself, or what X contains when X is a Nullable already; no
   Nullable contains a Nullable, and the two values generate the same type
   name and the same decode expression. *)
C9_NullableIdempotent ==
  nullTwice # <<>> =>
     /\ nullTwice[1].kind = "Null"
     /\ nullTwice[1].of = nullOnce[1].of
     /\ nullTwice[1].of = (IF nullIn[1].kind = "Null" THEN nullIn[1].of ELSE nullIn)
     /\ NoNestedNull(nullIn[1]) /\ NoNestedNull(nullOnce[1]) /\ NoNestedNull(nullTwice[1])
     /\ generateType(nullTwice[1]) = generateType(nullOnce[1])
     /\ generateJsonDecoding(template, nullTwice[1], "x")
          = generateJsonDecoding(template, nullOnce[1], "x")

\* a type that is not Nullable, wrapped twice
C9_Witness ==
  /\ nullTwice # <<>>
  /\ nullIn[1].kind = "List"
  /\ nullOnce[1].of = nullIn
  /\ generateType(nullTwice[1]) = generateType(nullIn[1]) \o <<"?">>

-----------------------------------------------------------------------------
(* Properties of the rendered columns *)

(* C11: the field of a nullable column in the rendered row class has the
   column's base TargetType wrapped in Nullable. *)
C11_NullableColumnIsNullable ==
  \A r \in 1..Len(rendered) : \A k \in 1..Len(rendered[r].fields) :
     LET f == rendered[r].fields[k]
     IN f.column.is_nullable => f.select = NullDartType(f.base)

(* C13: apply ends in an exception only when the catalog has a dependency
   cycle; a column whose format names no catalog type is rendered all the
   same. *)
C13_OnlyCyclesAreFatal == pc = "threw" => IsCircularError(thrown)

-----------------------------------------------------------------------------
(* Inputs of the mapping specification: catalogs whose types meet every rule
   of buildDartTypeFromPostgresType, one column for each type *)

Locales == {"en", "it"}

\* the keys a locale's table may have: an enum value and a foreign key
TableKeys == {"v", "w"}

LocaleTables == {LocaleTable(FALSE, {})} \cup {LocaleTable(TRUE, {key}) : key \in TableKeys}

TranslationValues ==
  {TranslationValue(FALSE, {}, [l \in {} |-> LocaleTable(FALSE, {})])}
  \cup UNION {{TranslationValue(TRUE, ls, tables) : tables \in [ls -> LocaleTables]} :
                ls \in SUBSET Locales}

Comments ==
  {<<>>,
   <<CommentText(FALSE, FALSE, FALSE, TranslationValue(FALSE, {}, [l \in {} |-> LocaleTable(FALSE, {})]))>>,
   <<CommentText(TRUE, FALSE, FALSE, TranslationValue(FALSE, {}, [l \in {} |-> LocaleTable(FALSE, {})]))>>,
   <<CommentText(TRUE, TRUE, FALSE, TranslationValue(FALSE, {}, [l \in {} |-> LocaleTable(FALSE, {})]))>>}
  \cup {<<CommentText(TRUE, TRUE, TRUE, tv)>> : tv \in TranslationValues}

MapNames == {<<"a">>, <<"_", "a">>, <<"int4">>, <<"_", "int4">>}

MapEnums == {<<>>, <<"v">>}

\* no attribute, or one attribute of the type with id 1
MapAttributes == {<<>>, <<[type_id |-> 1]>>}

\* the comment of the second type is null
MapCatalogs ==
  {<<[id |-> 1, name |-> n, attributes |-> at, enums |-> e, comment |-> c]>> :
      n \in MapNames, at \in MapAttributes, e \in MapEnums, c \in Comments}
  \cup
  {<<[id |-> 1, name |-> n[1], attributes |-> at[1], enums |-> e[1], comment |-> c],
     [id |-> 2, name |-> n[2], attributes |-> at[2], enums |-> e[2], comment |-> <<>>]>> :
      n \in {f \in [1..2 -> MapNames] : Injective(f)},
      at \in [1..2 -> MapAttributes], e \in [1..2 -> MapEnums], c \in Comments}

\* a column for every type of the catalog
MapColumns(catalog) ==
  [k \in 1..Len(catalog) |-> Column(1, <<"c">>, catalog[k].name, FALSE, FALSE, FALSE, <<>>, <<>>)]

InitMap ==
  /\ template \in {"part_000", "dart"}
  /\ types \in MapCatalogs
  /\ columns = MapColumns(types)
  /\ views = {}
  /\ pc = "start"
  /\ requiredTypes = <<>>
  /\ thrown = <<>>
  /\ ptdMap = EmptyMap
  /\ ptdKeys = <<>>
  /\ idx = 0
  /\ declarableTypes = <<>>
  /\ rendered = <<>>
  /\ sortedCatalog = NoResult
  /\ nullIn = <<>>
  /\ nullOnce = <<>>
  /\ nullTwice = <<>>

NextMap == CallGetRequiredTypes \/ ResolveNext \/ ResolveDone

SpecMap == InitMap /\ [][NextMap]_vars

-----------------------------------------------------------------------------
(* Properties of buildDartTypeFromPostgresType, read off the resolution loop *)

\* the loop is about to map requiredTypes[idx]
Resolving == pc = "resolve" /\ idx <= Len(requiredTypes)

Unlisted(t) == IF t.kind = "List" THEN t.of[1] ELSE t

\* the comment is JSON, an object, and has a table for every supported locale
\* whose keys are values of the enum
ValidTranslation(t) ==
  /\ t.comment # <<>>
  /\ t.comment[1].parses /\ t.comment[1].isObject /\ t.comment[1].hasTranslation
  /\ t.comment[1].translation.isObject
  /\ \A l \in Locales :
        /\ l \in t.comment[1].translation.locales
        /\ t.comment[1].translation.tables[l].isObject
        /\ \A key \in t.comment[1].translation.tables[l].keys :
              \E v \in 1..Len(t.enums) : t.enums[v] = key

(* C12: buildDartTypeFromPostgresType returns a TargetType for every type of
   the catalog, whatever the comment of an enum is: the loop goes on and the
   type is registered. *)
C12_MapperNeverFails ==
  [][Resolving => (pc' = "resolve" /\ IdKey(requiredTypes[idx].id) \in DOMAIN ptdMap')]_vars

(* C14: the Enum built for a type carries translation data exactly when the
   type's comment has a translation table with every supported locale and no
   key that is not a value of the enum. *)
C14_TranslationIffValid ==
  \A k \in 1..Len(requiredTypes) :
     (/\ pc = "resolve" /\ k < idx
      /\ Unlisted(ptdMap[IdKey(requiredTypes[k].id)]).kind = "Enum"
      /\ Unlisted(ptdMap[IdKey(requiredTypes[k].id)]).name = requiredTypes[k].name) =>
        (Unlisted(ptdMap[IdKey(requiredTypes[k].id)]).comment # <<>>
           <=> ValidTranslation(requiredTypes[k]))

(* C18: the rules are tried in a fixed order and the first that matches
   decides: List of the registered base, then the builtin table, then enum,
   then composite, then dynamic. *)
C18_FirstRuleWins ==
  [][Resolving =>
       LET t == requiredTypes[idx]
           isArray == startsWithUnderscore(t.name)
           base == IF isArray THEN slice1(t.name) ELSE t.name
           registered == isArray /\ base \in DOMAIN ptdMap
           builtin == PGTYPE_TO_DARTTYPE_MAP(template, base)
           returned == pc' = "resolve"
           new == ptdMap'[IdKey(t.id)]
       IN /\ registered => (returned /\ new = ListDartType(ptdMap[base]))
          /\ (~registered /\ builtin # <<>>) =>
                (returned /\ new = IF isArray THEN ListDartType(builtin[1]) ELSE builtin[1])
          /\ (~registered /\ builtin = <<>> /\ t.enums # <<>> /\ returned) =>
                (Unlisted(new).kind = "Enum" /\ (new.kind = "List" <=> isArray))
          /\ (~registered /\ builtin = <<>> /\ t.enums = <<>> /\ t.attributes # <<>> /\ returned) =>
                (Unlisted(new).kind = "Composite" /\ (new.kind = "List" <=> isArray))
          /\ (~registered /\ builtin = <<>> /\ t.enums = <<>> /\ t.attributes = <<>>) =>
                (returned /\ new = BuiltinDartType("dynamic"))]_vars

\* a type of a builtin name that declares enum values and attributes was mapped
\* to the builtin type, and an array after its base to List of the base's entry
C18_Witness ==
  /\ pc = "resolve" /\ idx = 3
  /\ requiredTypes[1].name = <<"int4">> /\ requiredTypes[1].enums # <<>>
  /\ requiredTypes[1].attributes # <<>>
  /\ ptdMap[IdKey(requiredTypes[1].id)] = BuiltinDartType("int")
  /\ requiredTypes[2].name = <<"_", "int4">> /\ requiredTypes[2].enums # <<>>
  /\ ptdMap[IdKey(requiredTypes[2].id)] = ListDartType(BuiltinDartType("int"))

-----------------------------------------------------------------------------
(* Properties of the JSON-schema pass *)

Unnulled(t) == IF t.kind = "Null" THEN t.of[1] ELSE t

\* a jsonb column whose check embeds an object schema with properties
isObjectChecked(c) ==
  /\ isSchemaChecked(c)
  /\ c.check[1].schema.type = "object"
  /\ hasProperties(c.check[1].schema)

(* C15: after the JSON-schema pass the registry holds, under the name of a
   jsonb column with an embedded object schema, a ClassDartConstructForJsonschema
   (Nullable when the column is nullable), and the column is rendered with it. *)
C15_SchemaOverride ==
  template = "part_000" =>
     /\ pc \in {"declare", "render", "done"} =>
           \A k \in 1..Len(columns) :
              isObjectChecked(columns[k]) =>
                 Unnulled(ptdMap[columns[k].name]).kind = "Jsonschema"
     /\ \A r \in 1..Len(rendered) : \A k \in 1..Len(rendered[r].fields) :
           isObjectChecked(rendered[r].fields[k].column) =>
              Unnulled(rendered[r].fields[k].select).kind = "Jsonschema"

\* the type the schema of a property is built to (every modelled property is primitive)
propertyType(property) ==
  buildDartTypeFromJsonschema(property.schema, property.name, EmptyMap, <<>>).value[1]

(* C16: the object schema of the column the pass has just handled became a
   ClassDartConstructForJsonschema with a field for every property, Nullable
   exactly when the property is not in the schema's list "required"; the same
   type is registered under the property's name (for a property named like
   the column, the column's own entry follows under that key). *)
C16_RequiredDecidesNullable ==
  (pc = "jsonschema" /\ idx > 1 /\ isObjectChecked(columns[idx - 1])) =>
     LET c == columns[idx - 1]
         schema == c.check[1].schema
         built == Unnulled(ptdMap[c.name])
     IN /\ built.kind = "Jsonschema"
        /\ \A k \in 1..Len(schema.properties) :
              LET property == schema.properties[k]
                  expected == IF property.name \in schema.required
                              THEN propertyType(property)
                              ELSE NullDartType(propertyType(property))
              IN /\ \E j \in 1..Len(built.props) :
                       built.props[j] = [name |-> property.name, type |-> expected]
                 /\ property.name # c.name => ptdMap[property.name] = expected

-----------------------------------------------------------------------------
(* Properties of getRequiredTypes and sortTypesByDependency, continued *)

Without(cols, k) == SubSeq(cols, 1, k - 1) \o SubSeq(cols, k + 1, Len(cols))

\* getRequiredTypes has just returned or thrown: what it gave
RequiredResult ==
  IF pc = "threw" THEN [thrown |-> thrown, value |-> <<>>]
  ELSE [thrown |-> <<>>, value |-> requiredTypes]

JustRequired == (pc = "resolve" /\ idx = 1) \/ (pc = "threw" /\ IsCircularError(thrown))

Unmatched(column) == typesByName(types, column.format) = <<>>

\* the format is array-marked and the catalog has the type it is an array of
HasBaseInCatalog(column) ==
  startsWithUnderscore(column.format) /\ typesByName(types, slice1(column.format)) # <<>>

(* C17, as claimed: a column whose format is the name of no catalog type can be
   removed without changing the set of types getRequiredTypes returns, also
   when the format is array-marked and its base type is in the catalog. *)
C17_UnmatchedContributesNothing ==
  JustRequired =>
     \A k \in 1..Len(columns) :
        Unmatched(columns[k]) =>
           LET without == getRequiredTypes(types, Without(columns, k))
           IN without.thrown = RequiredResult.thrown
              /\ Ids(without.value) = Ids(RequiredResult.value)

(* C17, amended: a column whose format is the name of no catalog type can be
   removed without changing what getRequiredTypes returns, unless the format
   is array-marked and the catalog has its base type (the base type is then
   required). *)
C17_UnmatchedWithoutBaseContributesNothing ==
  JustRequired =>
     \A k \in 1..Len(columns) :
        (Unmatched(columns[k]) /\ ~HasBaseInCatalog(columns[k])) =>
           getRequiredTypes(types, Without(columns, k)) = RequiredResult

\* a column of no catalog type and no base next to a column that requires a type
C17_Witness ==
  /\ pc = "resolve" /\ idx = 1
  /\ Len(columns) = 2 /\ Len(requiredTypes) > 0
  /\ Unmatched(columns[1]) /\ ~HasBaseInCatalog(columns[1])
  /\ startsWithUnderscore(columns[1].format)

\* sorted, as it stands when the loop over typeMap.keys() ends
DfsPostOrder(typeList) ==
  dfsUnvisited(typeList, [visited |-> {}, inStack |-> {}, sorted |-> <<>>, thrown |-> <<>>],
               Dedupe([k \in 1..Len(typeList) |-> typeList[k].id])).sorted

isArrayMarked(t) == startsWithUnderscore(t.name)

isNotArrayMarked(t) == ~startsWithUnderscore(t.name)

(* C19: what sortTypesByDependency returns is the DFS post-order with the
   types that are not array-marked first and the array-marked ones after them,
   each group in its post-order; it has every input type once. *)
C19_StablePartition ==
  (SortCalled /\ sortedCatalog.thrown = <<>>) =>
     /\ sortedCatalog.value = SelectSeq(DfsPostOrder(types), isNotArrayMarked)
                                \o SelectSeq(DfsPostOrder(types), isArrayMarked)
     /\ Len(sortedCatalog.value) = Len(types)
     /\ Ids(sortedCatalog.value) = Ids(types)

\* two array-marked types and another one, and the sort has moved a type
C19_Witness ==
  /\ SortCalled /\ sortedCatalog.thrown = <<>>
  /\ Len(sortedCatalog.value) = 3
  /\ sortedCatalog.value # DfsPostOrder(types)
  /\ isNotArrayMarked(sortedCatalog.value[1])
  /\ isArrayMarked(sortedCatalog.value[2]) /\ isArrayMarked(sortedCatalog.value[3])

(* C20: the depth-first visit takes the base type of an array-marked type for
   a dependency of it: the base type is finished before the array type, and a
   cycle that runs through such an edge ends in the circular-dependency
   error. *)
C20_ArrayElementEdgeIsDependency ==
  SortCalled =>
     /\ sortedCatalog.thrown = <<>> =>
           \A e \in BaseEdges(types) :
              PosOf(DfsPostOrder(types), e[2]) < PosOf(DfsPostOrder(types), e[1])
     /\ (\E id \in Ids(types) : OnCycle(AttributeEdges(types) \cup BaseEdges(types), id)) =>
           IsCircularError(sortedCatalog.thrown)

SelfReferences(typeList) ==
  {k \in 1..Len(typeList) :
     \E a \in 1..Len(typeList[k].attributes) : typeList[k].attributes[a].type_id = typeList[k].id}

(* C21: a catalog whose only cyclic attribute references are types naming
   themselves is sorted without the circular dependency error, every type
   appearing once in the order, and getRequiredTypes returns for it with every
   type id collected once; no input without a cycle among distinct types
   raises the error. *)
C21_SelfReferencesAreHarmless ==
  /\ (SortCalled /\ ~HasCycle(types)) =>
        /\ sortedCatalog.thrown = <<>>
        /\ Len(sortedCatalog.value) = Len(types)
        /\ Ids(sortedCatalog.value) = Ids(types)
  /\ (GetRequiredTypesCalled /\ ~HasCycle(ClosureTypes(types, columns))) =>
        /\ ~IsCircularError(thrown)
        /\ Cardinality(Ids(requiredTypes)) = Len(requiredTypes)
        /\ Ids(requiredTypes) = Ids(ClosureTypes(types, columns))

\* a required composite type with an attribute of its own type, sorted and returned
C21_Witness ==
  /\ pc = "resolve"
  /\ ~HasCycle(types)
  /\ sortedCatalog.thrown = <<>>
  /\ \E k \in SelfReferences(types) : types[k].id \in Ids(requiredTypes)

\* the schema-derived classes a type holds: itself, what it wraps or lists, its properties
RECURSIVE SchemaClasses(_)
SchemaClasses(t) ==
  IF t.kind = "Jsonschema"
  THEN {t} \cup UNION {SchemaClasses(t.props[k].type) : k \in 1..Len(t.props)}
  ELSE UNION {SchemaClasses(t.of[k]) : k \in 1..Len(t.of)}

(* C22: every schema-derived class held by the type a rendered column
   resolves to, directly, inside a nullable, as a list element or as a
   property, is in apply's list of declarable types. *)
C22_SchemaClassesAreDeclared ==
  template = "part_000" =>
     \A r \in 1..Len(rendered) : \A k \in 1..Len(rendered[r].fields) :
        SchemaClasses(rendered[r].fields[k].select) \subseteq Range(declarableTypes)

(* C23: a rendered jsonb column whose own check supplied no schema keeps the
   generic Map type, whatever keys the registry holds under its name. *)
C23_UncheckedJsonbKeepsMap ==
  template = "part_000" =>
     \A r \in 1..Len(rendered) : \A k \in 1..Len(rendered[r].fields) :
        LET f == rendered[r].fields[k]
        IN (f.column.format = <<"jsonb">> /\ ~isSchemaChecked(f.column)) =>
              Unnulled(f.select) = StringDynamicMap

====
